---- MODULE Spec2Model ----
(***************************************************************************)
(* hackaru-timeular: a Timeular cube (BLE) linked to the Hackaru time       *)
(* tracker.  Model of hackaru_timeular/hackaru_timeular.py: startup (main), *)
(* the orientation callback (callback_with_state), the remote task client  *)
(* (start_task, stop_current_task) and the signal handler                  *)
(* (GracefulKiller.exit_gracefully).                                       *)
(*                                                                         *)
(* The tracking service is the environment: every HTTP request is answered *)
(* with a success, with an error response, or not at all (the call raises).*)
(* Every request that goes on the wire is appended to `log`.               *)
(***************************************************************************)
EXTENDS Integers, Sequences, FiniteSets, TLC

\* ---------------------------------------------------------------- bounds
\* Notifications delivered by the cube in one run.
MaxPasses == 2
\* Termination signals delivered in one run.
MaxSignals == 1
\* HTTP requests that do not succeed in one run.
MaxFailures == 1
\* Iterations of the retry loop around login that are followed.
MaxLoginAttempts == 2

\* ----------------------------------------------------------- environment
\* Threads that deliver notifications: the event loop (the main thread).
Threads == {"loop"}

\* Every thread that may call the callback: the event loop, and a second
\* thread of the BLE binding.
AllThreads == {"loop", "worker"}

\* Orientation bytes the cube sends (a notification is one byte, 0..255).
Orientations == {0, 3, 5, 9}

\* Ids of activities the service may report as working at startup.
WorkingIds == {42}

\* Text typed at the description prompt ("" when the dialog is dismissed).
PromptTexts == {"", "typed"}

Entry(side, id, description) ==
    [side |-> side, id |-> id, description |-> description]

\* Mappings of the configuration file: one face; an entry without
\* description, an entry for side 9 and a second entry for the first face;
\* an entry for side 10.
Mappings ==
    { <<Entry(3, 7, "writing")>>,
      <<Entry(5, 8, ""), Entry(9, 7, "writing"), Entry(5, 7, "reading")>>,
      <<Entry(10, 7, "writing")>> }

\* Top-level keys of the configuration file.
SchemaKeys == {"timeular", "hackaru", "mapping"}
ConfigKeySets == {SchemaKeys, SchemaKeys \cup {"email"}}

\* ------------------------------------------------------------------ state
VARIABLES
    config,          \* main: config (keys of the file, and its mapping)
    cookie_file,     \* cookies.txt: "missing", "expired" or "valid"
    session_cookies, \* session.cookies is non-empty
    mainpc,          \* position of main / main_loop
    login_attempts,  \* iterations of @retry around login so far
    current_task,    \* State.current_task
    kill_now,        \* GracefulKiller.kill_now
    state_lock,      \* state_lock: "free" or the thread holding it
    pass,            \* per thread: the running callback_with_state
    handlers,        \* stack of running exit_gracefully calls (main thread)
    signals,         \* signals delivered so far
    log,             \* HTTP requests sent, in order, with their outcome
    nextId,          \* next activity id the service assigns
    passes           \* finished passes of callback_with_state, in order

vars == <<config, cookie_file, session_cookies, mainpc, login_attempts,
          current_task, kill_now, state_lock, pass, handlers, signals,
          log, nextId, passes>>

\* ------------------------------------------------------- values and helpers
\* State.current_task: None, the JSON of an activity, or a JSON body that
\* is no activity (an error answer: it has no "id").
None == [kind |-> "none", id |-> 0]
Activity(i) == [kind |-> "activity", id |-> i]
ErrorBody == [kind |-> "error", id |-> 0]

HasId(body) == body.kind = "activity"

SetMax(S) == CHOOSE x \in S : \A y \in S : y <= x

\* One HTTP request as the service saw it.
Request(op, by, id, project, description, outcome) ==
    [op |-> op, by |-> by, id |-> id, project |-> project,
     description |-> description, outcome |-> outcome]

RECURSIVE CountFailures(_)
CountFailures(l) ==
    IF l = <<>> THEN 0
    ELSE (IF l[1].outcome = "ok" THEN 0 ELSE 1) + CountFailures(Tail(l))

\* The service may still fail a request (the bound on failures per run).
MayFail == CountFailures(log) < MaxFailures

\* The range of the schema's side (min=1, max=9) in place of range(1, 9).
InRangeSchema(orientation) == orientation >= 1 /\ orientation <= 9

\* A debounce: a face is out of range when the last pass was for it too.
InRangeDebounced(orientation) ==
    /\ orientation >= 1 /\ orientation < 9
    /\ passes = <<>> \/ passes[Len(passes)].orientation # orientation

\* range(1, 9)
InRange(orientation) == orientation >= 1 /\ orientation < 9

NoTask == [project_id |-> 0, description |-> ""]

\* The locals of a running callback_with_state (and of the functions it
\* calls); began and first record current_task and the length of the log
\* when the callback was entered.
IdlePass ==
    [pc |-> "idle", orientation |-> 0, began |-> None, first |-> 0,
     sid |-> 0, task |-> NoTask, description |-> "", resp |-> None,
     resp_json |-> TRUE]

\* Outcome of one step of a function running in frame f: the frame, the
\* shared state it leaves, and the exception it raised ("" for none).
Result(f, ct, l, n, exc) ==
    [frame |-> f, current_task |-> ct, log |-> l, nextId |-> n, exc |-> exc]

\* ------------------------------------------------------ stop_current_task
\* The assignment forgotten: the task stays current after its stop.
StopClearKeeps(f) ==
    Result([f EXCEPT !.pc = "stop_done"], current_task, log, nextId, "")

\* state.current_task = None
StopClear(f) ==
    Result([f EXCEPT !.pc = "stop_done"], None, log, nextId, "")

\* One step of stop_current_task in frame f, on behalf of `by`.
stop_current_task(f, by) ==
    CASE f.pc = "stop_check" ->
           \* if state.current_task is None: return
           { Result([f EXCEPT !.pc = IF current_task = None
                                     THEN "stop_done" ELSE "stop_id"],
                    current_task, log, nextId, "") }
      [] f.pc = "stop_id" ->
           \* state.current_task["id"], read for the body and for the URL
           { IF current_task = None
               THEN Result(f, current_task, log, nextId, "TypeError")
             ELSE IF ~HasId(current_task)
               THEN Result(f, current_task, log, nextId, "KeyError")
             ELSE Result([f EXCEPT !.sid = current_task.id,
                                   !.pc = "stop_put"],
                         current_task, log, nextId, "") }
      [] f.pc = "stop_put" ->
           \* state.session.put(...): the answer is not looked at
           { Result([f EXCEPT !.pc = "stop_clear"], current_task,
                    Append(log, Request("stop", by, f.sid, 0, "", o)),
                    nextId, "")
               : o \in {"ok"} \cup (IF MayFail THEN {"error"} ELSE {}) }
           \cup
           { Result(f, current_task,
                    Append(log, Request("stop", by, f.sid, 0, "", "raise")),
                    nextId, "ConnectionError")
               : o \in IF MayFail THEN {"raise"} ELSE {} }
      [] f.pc = "stop_clear" ->
           { StopClear(f) }
      [] OTHER -> {}

StopPcs == {"stop_check", "stop_id", "stop_put", "stop_clear"}

\* --------------------------------------------------------------- get_task
\* The mapping indexed by the orientation (config['mapping'][orientation]).
get_task_by_index(mapping, orientation) ==
    IF orientation \in DOMAIN mapping
      THEN [found |-> TRUE,
            task |-> [project_id |-> mapping[orientation].id,
                      description |-> mapping[orientation].description]]
      ELSE [found |-> FALSE, task |-> NoTask]

\* next(mapping["task"] for mapping in config["mapping"] if side matches):
\* the first matching entry; found = FALSE stands for StopIteration.
RECURSIVE get_task(_, _)
get_task(mapping, orientation) ==
    IF mapping = <<>>
      THEN [found |-> FALSE, task |-> NoTask]
    ELSE IF mapping[1].side = orientation
      THEN [found |-> TRUE,
            task |-> [project_id |-> mapping[1].id,
                      description |-> mapping[1].description]]
    ELSE get_task(Tail(mapping), orientation)

\* -------------------------------------------------------------- start_task
\* A failed POST swallowed: start_task returns as if nothing had happened.
StartRaisesSwallowed(f, by) ==
    Result([f EXCEPT !.pc = "start_done"], current_task,
           Append(log, Request("start", by, 0, f.task.project_id,
                               f.description, "raise")),
           nextId, "")

\* state.session.post(...) raises (no answer): the exception leaves
\* start_task.
StartRaises(f, by) ==
    Result(f, current_task,
           Append(log, Request("start", by, 0, f.task.project_id,
                               f.description, "raise")),
           nextId, "ConnectionError")

\* The answer dropped: current_task is not assigned.
StartAssignDropped(f) ==
    Result([f EXCEPT !.pc = "start_done"], current_task, log, nextId, "")

\* state.current_task = resp.json(); a body that is no JSON raises.
StartAssign(f) ==
    IF f.resp_json
      THEN Result([f EXCEPT !.pc = "start_done"], f.resp, log, nextId, "")
      ELSE Result(f, current_task, log, nextId, "JSONDecodeError")

\* One step of start_task in frame f, on behalf of `by`.
start_task(f, by) ==
    CASE f.pc = "start_data" ->
           \* description or prompt_for_description(...)
           { Result([f EXCEPT !.description = d, !.pc = "start_post"],
                    current_task, log, nextId, "")
               : d \in IF f.task.description # ""
                       THEN {f.task.description} ELSE PromptTexts }
      [] f.pc = "start_post" ->
           \* resp = state.session.post(...)
           { Result([f EXCEPT !.resp = Activity(nextId), !.resp_json = TRUE,
                              !.pc = "start_assign"],
                    current_task,
                    Append(log, Request("start", by, nextId,
                                        f.task.project_id, f.description, "ok")),
                    nextId + 1, "") }
           \cup
           { Result([f EXCEPT !.resp = ErrorBody, !.resp_json = j,
                              !.pc = "start_assign"],
                    current_task,
                    Append(log, Request("start", by, 0, f.task.project_id,
                                        f.description, "error")),
                    nextId, "")
               : j \in IF MayFail THEN BOOLEAN ELSE {} }
           \cup
           { StartRaises(f, by) : o \in IF MayFail THEN {"raise"} ELSE {} }
      [] f.pc = "start_assign" ->
           { StartAssign(f) }
      [] OTHER -> {}

StartPcs == {"start_data", "start_post", "start_assign"}

\* ----------------------------------------------------- callback_with_state
\* The main thread runs its innermost signal handler before anything else.
Runnable(t) == mainpc = "loop" /\ (t = "loop" => handlers = <<>>)

Running == {t \in AllThreads : pass[t].pc # "idle"}

\* What is remembered of a finished pass: how it ended ("return",
\* "unmapped" after the logged StopIteration, or "raise" with the exception
\* and the function it came from), its stretch first+1..last of the log, and
\* current_task when it began and when it ended.
Summary(t, f, result, exc, origin, last, ended) ==
    [thread |-> t, orientation |-> f.orientation, began |-> f.began,
     first |-> f.first, last |-> last, result |-> result, exc |-> exc,
     origin |-> origin, ended |-> ended]

\* The pass ends and state_lock stays with whoever held it.
PassEndsKeepsLock(t, f, result, exc, origin, last, ended) ==
    /\ passes' = Append(passes,
                        Summary(t, f, result, exc, origin, last, ended))
    /\ pass' = [pass EXCEPT ![t] = IdlePass]
    /\ UNCHANGED state_lock

\* The pass of thread t in frame f ends: the with block releases state_lock.
PassEnds(t, f, result, exc, origin, last, ended) ==
    /\ passes' = Append(passes,
                        Summary(t, f, result, exc, origin, last, ended))
    /\ pass' = [pass EXCEPT ![t] = IdlePass]
    /\ state_lock' = IF state_lock = t THEN "free" ELSE state_lock

\* The cube notifies orientation f: the callback is entered on thread t.
Notify(t, f) ==
    /\ Runnable(t)
    /\ pass[t].pc = "idle"
    /\ Len(passes) + Cardinality(Running) < MaxPasses
    /\ pass' = [pass EXCEPT ![t] =
                  [IdlePass EXCEPT !.pc = "acquire", !.orientation = f,
                                   !.began = current_task, !.first = Len(log)]]
    /\ UNCHANGED <<config, cookie_file, session_cookies, mainpc,
                   login_attempts, current_task, kill_now, state_lock,
                   handlers, signals, log, nextId, passes>>

\* The lock not waited for: the section is entered whoever holds it.
AcquireNoWait(t) ==
    /\ Runnable(t)
    /\ pass[t].pc = "acquire"
    /\ state_lock' = t
    /\ pass' = [pass EXCEPT ![t].pc = "stop_check"]
    /\ UNCHANGED <<config, cookie_file, session_cookies, mainpc,
                   login_attempts, current_task, kill_now, handlers, signals,
                   log, nextId, passes>>

\* with state_lock:
Acquire(t) ==
    /\ Runnable(t)
    /\ pass[t].pc = "acquire"
    /\ state_lock = "free"
    /\ state_lock' = t
    /\ pass' = [pass EXCEPT ![t].pc = "stop_check"]
    /\ UNCHANGED <<config, cookie_file, session_cookies, mainpc,
                   login_attempts, current_task, kill_now, handlers, signals,
                   log, nextId, passes>>

\* stop_current_task(state), in either branch; outside range(1, 9) the
\* callback returns after it.
CallbackStop(t) ==
    /\ Runnable(t)
    /\ pass[t].pc \in StopPcs
    /\ \E r \in stop_current_task(pass[t], t) :
         /\ current_task' = r.current_task
         /\ log' = r.log
         /\ nextId' = r.nextId
         /\ IF r.exc # ""
              THEN PassEnds(t, r.frame, "raise", r.exc, "stop_current_task",
                            Len(r.log), r.current_task)
            ELSE IF r.frame.pc = "stop_done"
              THEN IF InRange(r.frame.orientation)
                     THEN /\ pass' = [pass EXCEPT ![t] =
                                        [r.frame EXCEPT !.pc = "get_task"]]
                          /\ UNCHANGED <<passes, state_lock>>
                     ELSE PassEnds(t, r.frame, "return", "", "", Len(r.log),
                                   r.current_task)
            ELSE /\ pass' = [pass EXCEPT ![t] = r.frame]
                 /\ UNCHANGED <<passes, state_lock>>
    /\ UNCHANGED <<config, cookie_file, session_cookies, mainpc,
                   login_attempts, kill_now, handlers, signals>>

\* task = get_task(state, orientation); StopIteration is caught and logged.
CallbackGetTask(t) ==
    /\ Runnable(t)
    /\ pass[t].pc = "get_task"
    /\ LET g == get_task(config.mapping, pass[t].orientation) IN
         IF g.found
           THEN /\ pass' = [pass EXCEPT ![t].pc = "start_data",
                                        ![t].task = g.task]
                /\ UNCHANGED <<passes, state_lock>>
           ELSE PassEnds(t, pass[t], "unmapped", "", "", Len(log),
                         current_task)
    /\ UNCHANGED <<config, cookie_file, session_cookies, mainpc,
                   login_attempts, current_task, kill_now, handlers, signals,
                   log, nextId>>

\* start_task(state, **task)
CallbackStart(t) ==
    /\ Runnable(t)
    /\ pass[t].pc \in StartPcs
    /\ \E r \in start_task(pass[t], t) :
         /\ current_task' = r.current_task
         /\ log' = r.log
         /\ nextId' = r.nextId
         /\ IF r.exc # ""
              THEN PassEnds(t, r.frame, "raise", r.exc, "start_task",
                            Len(r.log), r.current_task)
            ELSE IF r.frame.pc = "start_done"
              THEN PassEnds(t, r.frame, "return", "", "", Len(r.log),
                            r.current_task)
            ELSE /\ pass' = [pass EXCEPT ![t] = r.frame]
                 /\ UNCHANGED <<passes, state_lock>>
    /\ UNCHANGED <<config, cookie_file, session_cookies, mainpc,
                   login_attempts, kill_now, handlers, signals>>

\* ------------------------------------------- GracefulKiller.exit_gracefully
Top == handlers[Len(handlers)]
Pop == SubSeq(handlers, 1, Len(handlers) - 1)

\* SIGINT or SIGTERM arrives: the handler starts on the main thread, on top
\* of whatever the main thread is doing.
Deliver ==
    /\ mainpc \in {"connect", "loop"}
    /\ signals < MaxSignals
    /\ signals' = signals + 1
    /\ handlers' = Append(handlers, [IdlePass EXCEPT !.pc = "stop_check"])
    /\ UNCHANGED <<config, cookie_file, session_cookies, mainpc,
                   login_attempts, current_task, kill_now, state_lock, pass,
                   log, nextId, passes>>

\* The signal arrives while the main thread sleeps in main_loop (or is still
\* connecting).
SignalIdle ==
    /\ handlers = <<>>
    /\ pass["loop"].pc = "idle"
    /\ Deliver

\* The signal arrives while the main thread is inside callback_with_state
\* or inside an earlier call of the handler.
SignalInterrupt ==
    /\ handlers # <<>> \/ pass["loop"].pc # "idle"
    /\ Deliver

\* One more signal arrives while an earlier call of the handler is still
\* running (a second Ctrl-C): Python starts the handler again on top of it.
SignalAgain ==
    /\ handlers # <<>>
    /\ mainpc \in {"connect", "loop"}
    /\ signals >= 1
    /\ signals <= MaxSignals
    /\ signals' = signals + 1
    /\ handlers' = Append(handlers, [IdlePass EXCEPT !.pc = "stop_check"])
    /\ UNCHANGED <<config, cookie_file, session_cookies, mainpc,
                   login_attempts, current_task, kill_now, state_lock, pass,
                   log, nextId, passes>>

\* An exception leaves the handler: it unwinds every handler below it and
\* then the code the signal interrupted: the callback (whose with block
\* releases the lock; the event loop logs the exception), or else the event
\* loop itself, which ends asyncio.run.
Unwind(exc, r) ==
    /\ handlers' = <<>>
    /\ IF pass["loop"].pc # "idle"
         THEN /\ PassEnds("loop", pass["loop"], "raise", exc,
                          "exit_gracefully", Len(r.log), r.current_task)
              /\ UNCHANGED mainpc
         ELSE /\ mainpc' = "crashed"
              /\ UNCHANGED <<pass, passes, state_lock>>

\* stop_current_task(state), called by the handler.
HandlerStop ==
    /\ handlers # <<>>
    /\ Top.pc \in StopPcs
    /\ \E r \in stop_current_task(Top, "signal") :
         /\ current_task' = r.current_task
         /\ log' = r.log
         /\ nextId' = r.nextId
         /\ IF r.exc # ""
              THEN Unwind(r.exc, r)
              ELSE /\ handlers' = Append(Pop,
                        IF r.frame.pc = "stop_done"
                          THEN [r.frame EXCEPT !.pc = "set_kill"]
                          ELSE r.frame)
                   /\ UNCHANGED <<mainpc, pass, passes, state_lock>>
    /\ UNCHANGED <<config, cookie_file, session_cookies, login_attempts,
                   kill_now, signals>>

\* self.kill_now = True, and the handler returns.
HandlerKill ==
    /\ handlers # <<>>
    /\ Top.pc = "set_kill"
    /\ kill_now' = TRUE
    /\ handlers' = Pop
    /\ UNCHANGED <<config, cookie_file, session_cookies, mainpc,
                   login_attempts, current_task, state_lock, pass, signals,
                   log, nextId, passes>>

\* -------------------------------------------------------------------- main
\* CONFIG_SCHEMA, validated strictly: no top-level key outside the schema,
\* and every side an int(min=1, max=9).
SchemaAccepts(c) ==
    /\ c.keys \subseteq SchemaKeys \cup {"cli", "task_endpoint"}
    /\ SchemaKeys \subseteq c.keys
    /\ \A i \in DOMAIN c.mapping :
         c.mapping[i].side >= 1 /\ c.mapping[i].side <= 9

\* yamale.validate(CONFIG_SCHEMA, data)
Validate ==
    /\ mainpc = "validate"
    /\ mainpc' = IF SchemaAccepts(config) THEN "cookies" ELSE "invalid_config"
    /\ UNCHANGED <<config, cookie_file, session_cookies, login_attempts,
                   current_task, kill_now, state_lock, pass, handlers,
                   signals, log, nextId, passes>>

\* login called whatever the cookie jar holds.
LoadCookiesAlwaysLogin ==
    /\ mainpc = "cookies"
    /\ session_cookies' = (cookie_file = "valid")
    /\ mainpc' = "login"
    /\ UNCHANGED <<config, cookie_file, login_attempts, current_task,
                   kill_now, state_lock, pass, handlers, signals, log, nextId,
                   passes>>

\* session.cookies.load(...); clear_expired_cookies(); a missing file is
\* ignored.  Then: if not session.cookies: login(session, config)
LoadCookies ==
    /\ mainpc = "cookies"
    /\ session_cookies' = (cookie_file = "valid")
    /\ mainpc' = IF cookie_file = "valid" THEN "reconcile" ELSE "login"
    /\ UNCHANGED <<config, cookie_file, login_attempts, current_task,
                   kill_now, state_lock, pass, handlers, signals, log, nextId,
                   passes>>

\* One call of login's body; login_attempts counts the calls up to
\* MaxLoginAttempts.  An exception (of config["email"], of the POST, of
\* raise_for_status) goes to the @retry wrapper.
login ==
    /\ mainpc = "login"
    /\ login_attempts' = IF login_attempts < MaxLoginAttempts
                           THEN login_attempts + 1
                           ELSE login_attempts
    /\ IF "email" \notin config.keys
         THEN \* config["email"]: KeyError
              /\ mainpc' = "login_failed"
              /\ UNCHANGED <<cookie_file, session_cookies, log>>
         ELSE \E o \in {"ok"} \cup (IF MayFail THEN {"error", "raise"} ELSE {}) :
              /\ log' = Append(log, Request("login", "main", 0, 0, "", o))
              /\ IF o = "ok"
                   THEN \* session.cookies.save()
                        /\ cookie_file' = "valid"
                        /\ session_cookies' = TRUE
                        /\ mainpc' = "reconcile"
                   ELSE /\ mainpc' = "login_failed"
                        /\ UNCHANGED <<cookie_file, session_cookies>>
    /\ UNCHANGED <<config, current_task, kill_now, state_lock, pass, handlers,
                   signals, nextId, passes>>

\* @retry with no arguments: after any exception login is called again, at
\* once and without limit.
retry ==
    /\ mainpc = "login_failed"
    /\ mainpc' = "login"
    /\ UNCHANGED <<config, cookie_file, session_cookies, login_attempts,
                   current_task, kill_now, state_lock, pass, handlers,
                   signals, log, nextId, passes>>

\* The answer ignored: nothing is adopted.
ReconcileIgnores(body) == None

\* current_task = <the answer>.json()
ReconcileAdopts(body) == body

\* current_task = session.get(task_endpoint + "/working").json(), and
\* state = State(config, current_task, session)
Reconcile ==
    /\ mainpc = "reconcile"
    /\ \/ \E body \in {None} \cup {Activity(n) : n \in WorkingIds} :
            /\ log' = Append(log, Request("working", "main", body.id, 0, "", "ok"))
            /\ current_task' = ReconcileAdopts(body)
            /\ mainpc' = "install"
       \/ /\ MayFail
          /\ log' = Append(log, Request("working", "main", 0, 0, "", "error"))
          /\ \/ current_task' = ReconcileAdopts(ErrorBody) /\ mainpc' = "install"
             \/ UNCHANGED current_task /\ mainpc' = "crashed"
       \/ /\ MayFail
          /\ log' = Append(log, Request("working", "main", 0, 0, "", "raise"))
          /\ UNCHANGED current_task
          /\ mainpc' = "crashed"
    /\ UNCHANGED <<config, cookie_file, session_cookies, login_attempts,
                   kill_now, state_lock, pass, handlers, signals, nextId,
                   passes>>

\* killer = GracefulKiller(state): the handler is installed.
InstallKiller ==
    /\ mainpc = "install"
    /\ mainpc' = "connect"
    /\ UNCHANGED <<config, cookie_file, session_cookies, login_attempts,
                   current_task, kill_now, state_lock, pass, handlers,
                   signals, log, nextId, passes>>

\* main_loop up to client.start_notify(ORIENTATION_UUID, callback)
Connect ==
    /\ mainpc = "connect"
    /\ handlers = <<>>
    /\ mainpc' = "loop"
    /\ UNCHANGED <<config, cookie_file, session_cookies, login_attempts,
                   current_task, kill_now, state_lock, pass, handlers,
                   signals, log, nextId, passes>>

\* while not killer.kill_now: await asyncio.sleep(1)
LoopExit ==
    /\ mainpc = "loop"
    /\ handlers = <<>>
    /\ pass["loop"].pc = "idle"
    /\ kill_now
    /\ mainpc' = "exited"
    /\ UNCHANGED <<config, cookie_file, session_cookies, login_attempts,
                   current_task, kill_now, state_lock, pass, handlers,
                   signals, log, nextId, passes>>

\* ----------------------------------------------------------- specification
Init ==
    /\ config \in [keys : ConfigKeySets, mapping : Mappings]
    /\ cookie_file \in {"missing", "expired", "valid"}
    /\ session_cookies = FALSE
    /\ mainpc = "validate"
    /\ login_attempts = 0
    /\ current_task = None
    /\ kill_now = FALSE
    /\ state_lock = "free"
    /\ pass = [t \in AllThreads |-> IdlePass]
    /\ handlers = <<>>
    /\ signals = 0
    /\ log = <<>>
    /\ nextId = SetMax(WorkingIds) + 1
    /\ passes = <<>>

\* The program as it runs: signals are handled between notifications.
Next ==
    \/ Validate
    \/ LoadCookies
    \/ login
    \/ retry
    \/ Reconcile
    \/ InstallKiller
    \/ Connect
    \/ LoopExit
    \/ \E t \in Threads, f \in Orientations : Notify(t, f)
    \/ \E t \in Threads : Acquire(t)
    \/ \E t \in Threads : CallbackStop(t)
    \/ \E t \in Threads : CallbackGetTask(t)
    \/ \E t \in Threads : CallbackStart(t)
    \/ SignalIdle
    \/ HandlerStop
    \/ HandlerKill

Spec == Init /\ [][Next]_vars

\* The same, with signals that interrupt a notification pass or the handler.
NextInterrupt ==
    \/ Next
    \/ SignalInterrupt

SpecInterrupt == Init /\ [][NextInterrupt]_vars

\* The statements of main up to main_loop are straight-line code of the main
\* thread: each one, once reached, is executed.
SpecFair ==
    /\ Init
    /\ [][Next]_vars
    /\ WF_vars(Validate)
    /\ WF_vars(LoadCookies)
    /\ WF_vars(login)
    /\ WF_vars(retry)
    /\ WF_vars(Reconcile)
    /\ WF_vars(InstallKiller)
    /\ WF_vars(Connect)

\* The callback called from two threads, whose passes may overlap.
NextThreads ==
    \/ Validate
    \/ LoadCookies
    \/ login
    \/ retry
    \/ Reconcile
    \/ InstallKiller
    \/ Connect
    \/ \E t \in AllThreads, f \in Orientations : Notify(t, f)
    \/ \E t \in AllThreads : Acquire(t)
    \/ \E t \in AllThreads : CallbackStop(t)
    \/ \E t \in AllThreads : CallbackGetTask(t)
    \/ \E t \in AllThreads : CallbackStart(t)

SpecThreads == Init /\ [][NextThreads]_vars

\* Startup and shutdown with no notification, and a signal sent again
\* before the handler of the one before has returned.
NextSignals ==
    \/ Validate
    \/ LoadCookies
    \/ login
    \/ retry
    \/ Reconcile
    \/ InstallKiller
    \/ Connect
    \/ LoopExit
    \/ SignalIdle
    \/ SignalAgain
    \/ HandlerStop
    \/ HandlerKill

SpecSignals == Init /\ [][NextSignals]_vars

\* ------------------------------------------------------------------ claims
\* The requests a finished pass p sent itself, in order.
Requests(p) ==
    SelectSeq(SubSeq(log, p.first + 1, p.last),
              LAMBDA r : r.by = p.thread)

Starts(p) == SelectSeq(Requests(p), LAMBDA r : r.op = "start")
Stops(p) == SelectSeq(Requests(p), LAMBDA r : r.op = "stop")

\* Face f has an entry in the configured mapping; MappedEntry(f) is the
\* entry used for it (the first one listed).
Mapped(f) == \E i \in DOMAIN config.mapping : config.mapping[i].side = f
MappedEntry(f) ==
    config.mapping[CHOOSE i \in DOMAIN config.mapping :
                     /\ config.mapping[i].side = f
                     /\ \A j \in 1..(i - 1) : config.mapping[j].side # f]

OutOfRange(f) == f \in 0..255 /\ (f = 0 \/ f > 8)
Face(f) == f \in 1..8

C2_MappedFaceStartsOnce ==
    \A i \in DOMAIN passes :
      LET p == passes[i]
          reqs == Requests(p)
          entry == MappedEntry(p.orientation)
      IN  (Face(p.orientation) /\ Mapped(p.orientation) /\ p.began = None) =>
            /\ Len(reqs) = 1
            /\ reqs[1].op = "start"
            /\ reqs[1].project = entry.id
            /\ IF entry.description # ""
                 THEN reqs[1].description = entry.description
                 ELSE reqs[1].description \in PromptTexts

\* An idle pass for face 5, whose entry has no description, has started
\* project 8 with the text typed at the prompt.
C2_Witness ==
    \E i \in DOMAIN passes :
      /\ passes[i].orientation = 5
      /\ passes[i].began = None
      /\ Mapped(5)
      /\ MappedEntry(5).description = ""
      /\ Len(Starts(passes[i])) = 1
      /\ Starts(passes[i])[1].project = 8
      /\ Starts(passes[i])[1].description = "typed"
      /\ Starts(passes[i])[1].outcome = "ok"

\* C3: a pass for a face in 1..8 that the mapping does not list sends a stop
\* request if a task was current, sends no start request, ends by reporting
\* that no task is assigned to the face, and leaves no current task.
\* (Stated for the passes that begin with no task or with an activity.)
C3_UnmappedFaceStopsAndReports ==
    \A i \in DOMAIN passes :
      LET p == passes[i] IN
        (/\ Face(p.orientation) /\ ~Mapped(p.orientation)
         /\ p.began = None \/ HasId(p.began)) =>
          /\ HasId(p.began) => Stops(p) # <<>>
          /\ Starts(p) = <<>>
          /\ p.result = "unmapped"
          /\ p.ended = None

\* C4: start_task runs, and sends its request, only while no task is
\* current; and within a pass no stop request follows a start request.
C4_StartsOnlyWhenIdle ==
    /\ \A t \in Threads :
         pass[t].pc \in {"get_task"} \cup StartPcs => current_task = None
    /\ \A i \in DOMAIN passes :
         LET reqs == Requests(passes[i]) IN
           \A k, l \in DOMAIN reqs :
             (reqs[k].op = "start" /\ k < l) => reqs[l].op # "stop"

\* A pass that began with task 42 current has stopped it and is about to
\* send its start request.
C4_Witness ==
    \E t \in Threads :
      /\ pass[t].pc = "start_post"
      /\ pass[t].began = Activity(42)
      /\ current_task = None
      /\ log[Len(log)].op = "stop"
      /\ log[Len(log)].id = 42

\* C5: when stop_current_task was called with a task current (the whole of
\* a pass for an out-of-range orientation), no task is current when it ends,
\* whether the PUT was answered, answered with an error, or raised.
C5_StopAlwaysClears ==
    \A i \in DOMAIN passes :
      LET p == passes[i] IN
        (OutOfRange(p.orientation) /\ HasId(p.began)) => p.ended = None

\* C6: after a stop request for an id has failed (an error answer, or no
\* answer), no later stop request is sent for the same id.
C6_FailedStopNotReissued ==
    \A i, j \in DOMAIN log :
      (/\ i < j
       /\ log[i].op = "stop" /\ log[i].outcome # "ok"
       /\ log[j].op = "stop")
        => log[j].id # log[i].id

Calls == SelectSeq(log, LAMBDA r : r.op \in {"start", "stop"})

\* Request j made an activity (or, for an idle service, none) current.
IsAdoption(j) == log[j].op \in {"start", "working"} /\ log[j].outcome = "ok"

C9_ReconcileAdoptsRemote ==
    /\ \A w \in DOMAIN log :
         log[w].op = "working" =>
           /\ \A i \in 1..(w - 1) : log[i].op = "login"
           /\ \A j \in (w + 1)..Len(log) : log[j].op \in {"start", "stop"}
    /\ (Running # {} \/ passes # <<>>) =>
         \E w \in DOMAIN log : log[w].op = "working"
    /\ (mainpc = "install" /\ log[Len(log)].outcome = "ok"
          /\ log[Len(log)].id # 0) =>
         /\ current_task = Activity(log[Len(log)].id)
         /\ \A i \in DOMAIN log : log[i].op # "start"

\* The service reported activity 42 as working: it is current after
\* reconciliation.
C9_Witness ==
    /\ mainpc = "install"
    /\ log = <<Request("working", "main", 42, 0, "", "ok")>>
    /\ current_task = Activity(42)

InSection(t) == pass[t].pc \in StopPcs \cup {"get_task"} \cup StartPcs

\* C11: at most one pass is inside the state_lock section at any time, and
\* it is the pass of the thread holding the lock; the requests of a pass
\* (its stop, then its start) are never interleaved with a request of a pass
\* on another thread.
C11_PassesMutuallyExclusive ==
    /\ \A t, u \in AllThreads : (InSection(t) /\ InSection(u)) => t = u
    /\ \A t \in AllThreads : InSection(t) => state_lock = t
    /\ \A n \in DOMAIN passes :
         LET p == passes[n] IN
           \A i, k \in (p.first + 1)..p.last :
             (i < k /\ log[i].by = p.thread /\ log[k].by = p.thread) =>
               \A j \in (i + 1)..(k - 1) :
                 log[j].by \notin AllThreads \ {p.thread}

\* Two invocations overlap: the pass of the event loop has sent its stop and
\* is about to start, while the pass of the other thread waits for the lock.
C11_Witness ==
    /\ pass["loop"].pc = "start_post"
    /\ pass["loop"].began = Activity(42)
    /\ log[Len(log)].op = "stop"
    /\ pass["worker"].pc = "acquire"
    /\ pass["worker"].began = Activity(42)
    /\ state_lock = "loop"

\* The stop requests the signal handler has sent for the activity with id i.
SignalStops(i) ==
    {k \in DOMAIN log :
       log[k].op = "stop" /\ log[k].by = "signal" /\ log[k].id = i}

\* C12: the termination signals of a run trigger at most one stop request
\* for a task: a signal received while the task is current sends one, the
\* request is not sent again, and a further signal sends none for it.
C12_SignalStopsOnce ==
    \A i \in 1..nextId : Cardinality(SignalStops(i)) <= 1

\* No start or reconcile request was answered with an error, so the current
\* task never was a record without id.
NoErrorAdopted ==
    \A k \in DOMAIN log :
      log[k].op \in {"start", "working"} => log[k].outcome # "error"

\* C13: once a termination signal has been delivered and its handler is no
\* longer running, kill_now is true, or the process has already left
\* main_loop; whether the handler's stop request succeeded or failed.
C13_SignalAlwaysKills ==
    (signals > 0 /\ handlers = <<>> /\ NoErrorAdopted) =>
      (kill_now \/ mainpc \in {"exited", "crashed"})

\* C14: the retries of login are bounded: whenever login is being attempted,
\* it eventually stops being retried, by a success or by a failure that
\* leaves login and aborts startup.
C14_LoginRetriesEnd ==
    [](mainpc = "login" => <>(mainpc \notin {"login", "login_failed"}))

\* main has passed the login stage.
PastLogin ==
    mainpc \in {"reconcile", "install", "connect", "loop", "exited", "crashed"}

\* A login request the service accepted.
LoginAccepted ==
    \E k \in DOMAIN log : log[k].op = "login" /\ log[k].outcome = "ok"

C16_AcceptedFacesStart ==
    mainpc \notin {"validate", "invalid_config"} =>
      \A i \in DOMAIN config.mapping : InRange(config.mapping[i].side)

\* C17: the current task is always either absent or a record carrying the
\* id of an activity of the service.
C17_CurrentTaskHasId ==
    current_task = None \/ HasId(current_task)

\* Every request of the run succeeded.
AllSucceeded == \A k \in DOMAIN log : log[k].outcome = "ok"

\* The activities this process started.
Started ==
    {log[k].id : k \in {j \in DOMAIN log :
                          log[j].op = "start" /\ log[j].outcome = "ok"}}

\* C18: when main_loop has exited after a termination signal, with every
\* request of the run having succeeded, no task is current and every
\* activity this process started has received a stop request; wherever the
\* signal handler ran between the steps of a notification pass.
C18_ExitLeavesNothingRunning ==
    (mainpc = "exited" /\ AllSucceeded) =>
      /\ current_task = None
      /\ \A i \in Started :
           \E k \in DOMAIN log : log[k].op = "stop" /\ log[k].id = i

\* C19: state_lock is held only by a pass that is inside the with block:
\* once a pass has ended, however it ended (return, early return for a face
\* out of range, reported unmapped face, exception of the stop or start
\* request or of an interrupting handler), the lock is free for the next
\* notification; and a signal handler that runs while a pass holds the lock
\* is never blocked: its next step can always be taken.
C19_LockNeverStaysHeld ==
    /\ \A t \in AllThreads : state_lock = t => InSection(t)
    /\ Running = {} => state_lock = "free"
    /\ handlers # <<>> => ENABLED (HandlerStop \/ HandlerKill)

\* A pass has ended with the exception of its stop request, the next pass
\* holds the lock, and the signal handler is sending its stop on top of it.
C19_Witness ==
    /\ Len(passes) >= 1
    /\ passes[1].result = "raise"
    /\ passes[1].origin = "stop_current_task"
    /\ state_lock = "loop"
    /\ handlers # <<>>
    /\ Top.pc = "stop_put"

\* C20: with an accepted configuration and no valid persisted session,
\* startup completes: every call of login sends the login request built from
\* the configured email and the prompted password, and a startup that has
\* reached login eventually reaches reconciliation.
C20_StartupCompletes ==
    /\ [][(mainpc = "login" /\ mainpc' # "login") =>
            (Len(log') = Len(log) + 1 /\ log'[Len(log')].op = "login")]_vars
    /\ (mainpc = "login") ~> (mainpc = "reconcile")

====
